---- MODULE Spec2Model ----
(***************************************************************************)
(* wgpu-allocators: the Stack bump allocator (src/allocators.rs) and the   *)
(* size-classed HeapArena (src/arena.rs).                                  *)
(*                                                                         *)
(* StackSpec drives one Stack allocator over one heap with alloc and       *)
(* dealloc calls; Spec drives one HeapArena<Stack> with alloc calls.       *)
(* StackReuseSpec lets the caller of Stack::dealloc pass any range it was  *)
(* ever handed, ArenaLogSpec keeps the Allocations an arena returned,      *)
(* ClassifySpec applies classify_size, and HeapSpec drives the staging and *)
(* device buffers of one Heap (src/lib.rs).                                *)
(* BufferAddress is u64 in the source; the model keeps the arithmetic      *)
(* (checked_sub, bitwise and with the negated mask) on AddrBits-bit words. *)
(***************************************************************************)
EXTENDS Integers, Sequences, FiniteSets

VARIABLES heap_size, stack, outstanding, slast,
          tiny_pool, size_pools, calc_new_heap_size, calls, alast,
          returned, misused, allocations,
          csize, cprev,
          staging, gpu, mapped, encoder, hlast

vars == <<heap_size, stack, outstanding, slast,
          tiny_pool, size_pools, calc_new_heap_size, calls, alast,
          returned, misused, allocations,
          csize, cprev,
          staging, gpu, mapped, encoder, hlast>>

\* what the callers of Stack and HeapArena have been handed so far
logVars == <<returned, misused, allocations>>

\* the arguments of classify_size
classVars == <<csize, cprev>>

\* one Heap and the command encoder it records into
heapVars == <<staging, gpu, mapped, encoder, hlast>>

stackVars == <<heap_size, stack, outstanding, slast>>

arenaVars == <<tiny_pool, size_pools, calc_new_heap_size, calls, alast>>

(***************************************************************************)
(* Bounds                                                                  *)
(***************************************************************************)
\* width of a BufferAddress word in the model
AddrBits == 14

\* largest heap handed to Stack::new in StackSpec
MaxHeapSize == 8

\* largest size requested in StackSpec
MaxAllocSize == 4

\* alignments requested are 2^0 .. 2^MaxAlignLog
MaxAlignLog == 2

\* number of HeapArena::alloc calls made in Spec
MaxCalls == 5

\* number of distinct ranges handed out in StackReuseSpec
MaxReturned == 3

\* size in bytes of the Heap of HeapSpec
MaxHeapBytes == 2

\* number of copy commands the encoder of HeapSpec holds
MaxEncoder == 1

(***************************************************************************)
(* Word arithmetic                                                         *)
(***************************************************************************)
WordMax == 2^AddrBits - 1

RECURSIVE BitAndN(_, _, _)
BitAndN(a, b, n) ==
    IF n = 0 THEN 0
    ELSE (a % 2) * (b % 2) + 2 * BitAndN(a \div 2, b \div 2, n - 1)

\* a & b
BitAnd(a, b) == BitAndN(a, b, AddrBits)

\* !a
BitNot(a) == WordMax - a

checked_sub_strict(a, b) == IF b >= a THEN -1 ELSE a - b

\* a.checked_sub(b): None is modelled as -1
checked_sub(a, b) == IF b > a THEN -1 ELSE a - b

NoRange == [start |-> 0, end |-> 0]

Min(S) == CHOOSE x \in S : \A y \in S : x <= y

(***************************************************************************)
(* allocators.rs                                                           *)
(***************************************************************************)
create_alignment_bitmask_offbyone(alignment) == BitNot(alignment)

create_alignment_bitmask(alignment) == BitNot(alignment - 1)

\* Stack::new
Stack_new(heap) == [pointer |-> heap.size]

Stack_alloc_clobber(self, size, alignment) ==
    LET sub == checked_sub(self.pointer, size) IN
    IF sub = -1
    THEN [ok |-> FALSE, self |-> [pointer |-> 0], range |-> NoRange]
    ELSE LET pointer == BitAnd(sub, create_alignment_bitmask(alignment)) IN
         [ok    |-> TRUE,
          self  |-> [pointer |-> pointer],
          range |-> [start |-> pointer, end |-> pointer + size]]

\* Stack::alloc: the `?` returns None before the assignment to self.pointer
Stack_alloc(self, size, alignment) ==
    LET sub == checked_sub(self.pointer, size) IN
    IF sub = -1
    THEN [ok |-> FALSE, self |-> self, range |-> NoRange]
    ELSE LET pointer == BitAnd(sub, create_alignment_bitmask(alignment)) IN
         [ok    |-> TRUE,
          self  |-> [pointer |-> pointer],
          range |-> [start |-> pointer, end |-> pointer + size]]

Stack_dealloc_anyrange(self, range) ==
    IF range.start >= self.pointer
    THEN [ok |-> TRUE, self |-> [pointer |-> range.end]]
    ELSE [ok |-> FALSE, self |-> self]

\* Stack::dealloc
Stack_dealloc(self, range) ==
    IF range.start = self.pointer
    THEN [ok |-> TRUE, self |-> [pointer |-> range.end]]
    ELSE [ok |-> FALSE, self |-> self]

(***************************************************************************)
(* StackSpec: one Stack over one heap                                      *)
(***************************************************************************)
HeapSizes == {MaxHeapSize - 1, MaxHeapSize}

AllocSizes == 1..MaxAllocSize

Alignments == {2^k : k \in 0..MaxAlignLog}

RemoveAt(s, i) == SubSeq(s, 1, i - 1) \o SubSeq(s, i + 1, Len(s))

NoAllocation ==
    [arena_key |-> [size_class |-> 0, index_in_pool |-> 0],
     range_in_heap |-> NoRange]

NoHeapCall ==
    [op |-> "new", range |-> NoRange, contents |-> <<>>, outcome |-> "none"]

\* nothing handed out yet
LogIdle ==
    /\ returned = {}
    /\ misused = FALSE
    /\ allocations = <<>>

ClassIdle ==
    /\ csize = [size |-> 1, class |-> 0]
    /\ cprev = [size |-> 1, class |-> 0]

HeapIdle ==
    /\ staging = <<>>
    /\ gpu = <<>>
    /\ mapped = FALSE
    /\ encoder = <<>>
    /\ hlast = NoHeapCall

ArenaIdle ==
    /\ tiny_pool = <<>>
    /\ size_pools = <<>>
    /\ calc_new_heap_size = "exact"
    /\ calls = 0
    /\ alast = [op |-> "new", size |-> 1, alignment |-> 1,
                outcome |-> "none", allocation |-> NoAllocation,
                served |-> -1, pre_tiny |-> <<>>, pre_pools |-> <<>>]

StackInit ==
    /\ heap_size \in HeapSizes
    /\ stack = Stack_new([size |-> heap_size])
    /\ outstanding = <<>>
    /\ slast = [op |-> "new", size |-> 0, alignment |-> 1, ok |-> TRUE,
                before |-> heap_size, range |-> NoRange,
                most_recent |-> FALSE, immediate |-> FALSE,
                alloc_before |-> heap_size]
    /\ ArenaIdle
    /\ LogIdle
    /\ ClassIdle
    /\ HeapIdle

\* Stack::alloc(size, alignment) on the allocator
StackAllocStep(size, alignment) ==
    LET r == Stack_alloc(stack, size, alignment) IN
    /\ stack' = r.self
    /\ outstanding' = IF r.ok THEN Append(outstanding, r.range)
                      ELSE outstanding
    /\ slast' = [op |-> "alloc", size |-> size, alignment |-> alignment,
                 ok |-> r.ok, before |-> stack.pointer,
                 range |-> r.range, most_recent |-> FALSE,
                 immediate |-> FALSE, alloc_before |-> stack.pointer]
    /\ UNCHANGED <<heap_size, arenaVars, classVars, heapVars, allocations>>

\* the caller calls Stack::alloc(size, alignment)
StackAllocCall ==
    \E size \in AllocSizes, alignment \in Alignments :
        /\ StackAllocStep(size, alignment)
        /\ UNCHANGED <<returned, misused>>

\* the caller calls Stack::dealloc with the range of an outstanding
\* allocation (the safety contract of Allocator::dealloc)
StackDeallocCall ==
    \E i \in 1..Len(outstanding) :
        LET range == outstanding[i]
            r == Stack_dealloc(stack, range)
        IN
        /\ stack' = r.self
        /\ outstanding' = IF r.ok THEN RemoveAt(outstanding, i)
                          ELSE outstanding
        /\ slast' = [op |-> "dealloc", size |-> range.end - range.start,
                     alignment |-> 1,
                     ok |-> r.ok, before |-> stack.pointer,
                     range |-> range,
                     most_recent |-> (i = Len(outstanding)),
                     immediate |-> (/\ slast.op = "alloc"
                                    /\ slast.ok
                                    /\ i = Len(outstanding)),
                     alloc_before |-> slast.before]
        /\ UNCHANGED <<heap_size, arenaVars, logVars, classVars, heapVars>>

StackNext == StackAllocCall \/ StackDeallocCall

StackSpec == StackInit /\ [][StackNext]_vars

(***************************************************************************)
(* StackReuseSpec: the caller may pass Stack::dealloc any range this       *)
(* allocator ever returned, also one it has already deallocated            *)
(***************************************************************************)
\* position of the most recently made outstanding allocation with this
\* range, 0 when the range is not outstanding
LastIndexOf(s, range) ==
    LET hits == {i \in 1..Len(s) : s[i] = range} IN
    IF hits = {} THEN 0 ELSE CHOOSE i \in hits : \A j \in hits : j <= i

ReuseSizes == {1, 2}

ReuseAlignments == {1, 2}

\* the caller calls Stack::alloc and keeps the range it is handed
StackAllocLogged ==
    \E size \in ReuseSizes, alignment \in ReuseAlignments :
        LET r == Stack_alloc(stack, size, alignment) IN
        /\ r.ok => /\ Cardinality(returned \cup {r.range}) <= MaxReturned
                   /\ Len(outstanding) < MaxReturned
        /\ StackAllocStep(size, alignment)
        /\ returned' = IF r.ok THEN returned \cup {r.range} ELSE returned
        /\ UNCHANGED misused

\* the caller calls Stack::dealloc with a range previously returned by this
\* allocator; `misused` records that some call passed a range that was not
\* outstanding (not a valid allocation, Allocator::dealloc's safety clause)
StackDeallocReturned ==
    \E range \in returned :
        LET i == LastIndexOf(outstanding, range)
            r == Stack_dealloc(stack, range)
        IN
        /\ stack' = r.self
        /\ outstanding' = IF r.ok /\ i > 0 THEN RemoveAt(outstanding, i)
                          ELSE outstanding
        /\ misused' = (misused \/ i = 0)
        /\ slast' = [op |-> "dealloc", size |-> range.end - range.start,
                     alignment |-> 1,
                     ok |-> r.ok, before |-> stack.pointer,
                     range |-> range,
                     most_recent |-> (i > 0 /\ i = Len(outstanding)),
                     immediate |-> (/\ slast.op = "alloc"
                                    /\ slast.ok
                                    /\ i > 0
                                    /\ i = Len(outstanding)),
                     alloc_before |-> slast.before]
        /\ UNCHANGED <<heap_size, arenaVars, classVars, heapVars,
                       returned, allocations>>

StackReuseNext == StackAllocLogged \/ StackDeallocReturned

StackReuseSpec == StackInit /\ [][StackReuseNext]_vars

(***************************************************************************)
(* Stack claims                                                            *)
(***************************************************************************)
RoundDown(x, a) == x - (x % a)

\* C3: a dealloc of the range returned by the immediately preceding
\* successful alloc returns Ok and leaves the pointer at its value before
\* that alloc.
C3_RoundTrip ==
    (slast.op = "dealloc" /\ slast.immediate)
        => (slast.ok /\ stack.pointer = slast.alloc_before)

\* C4: a dealloc of an outstanding range other than the most recently made
\* outstanding one returns Err, leaves the pointer unchanged and leaves the
\* range outstanding.
C4_OutOfOrderDeallocFails ==
    (slast.op = "dealloc" /\ ~slast.most_recent)
        => /\ ~slast.ok
           /\ stack.pointer = slast.before
           /\ \E i \in 1..Len(outstanding) : outstanding[i] = slast.range

C4_Witness ==
    /\ slast.op = "dealloc"
    /\ ~slast.most_recent
    /\ ~slast.ok
    /\ Len(outstanding) >= 2
    /\ outstanding[1] = slast.range

\* C5: LIFO unwinding: a dealloc of an outstanding allocation X succeeds
\* once every allocation made after X has been deallocated, that is, when X
\* is the most recently made outstanding allocation.
C5_LifoUnwind ==
    (slast.op = "dealloc" /\ slast.most_recent) => slast.ok

\* C6: a successful alloc with a power-of-two alignment returns a range
\* whose start is a multiple of the alignment and whose length is at least
\* the requested size.
C6_AlignedAndLargeEnough ==
    (slast.op = "alloc" /\ slast.ok)
        => /\ slast.range.start % slast.alignment = 0
           /\ slast.range.end - slast.range.start >= slast.size

C6_Witness ==
    /\ slast.op = "alloc"
    /\ slast.ok
    /\ slast.alignment > 1
    /\ (slast.before - slast.size) % slast.alignment # 0
    /\ slast.range.start < slast.before - slast.size

\* C7: a successful alloc returns [aligned_pointer, previous_pointer): start
\* is (previous_pointer - size) rounded down to the alignment, end is the
\* pointer before the call, and the pointer after the call is the start.
C7_RangeEndsAtPreviousPointer ==
    (slast.op = "alloc" /\ slast.ok)
        => /\ slast.range.start
                = RoundDown(slast.before - slast.size, slast.alignment)
           /\ slast.range.end = slast.before
           /\ stack.pointer = slast.range.start

(***************************************************************************)
(* arena.rs                                                                *)
(***************************************************************************)
\* `if size_class < 12` in HeapArena::alloc and in Index<ArenaKey>
TinyClassLimit == 12

RECURSIVE BitLength(_)
BitLength(x) == IF x = 0 THEN 0 ELSE 1 + BitLength(x \div 2)

\* u64::leading_zeros on an AddrBits-bit word
leading_zeros(x) == AddrBits - BitLength(x)

classify_size_bitcount(size) ==
    LET total_bits == AddrBits
        not_leading_zeros == total_bits - leading_zeros(size)
    IN not_leading_zeros

\* classify_size
classify_size(size) ==
    LET total_bits == AddrBits
        not_leading_zeros == total_bits - leading_zeros(size)
    IN not_leading_zeros - 1

\* the sizing policies a caller may hand to HeapArena::new
Policies == {"exact", "double", "scenario", "capped"}

\* (calc_new_heap_size)(NewHeapSizeContext { first_alloc_size })
ApplyPolicy(policy, first_alloc_size) ==
    CASE policy = "exact" -> first_alloc_size
      [] policy = "double" -> 2 * first_alloc_size
      [] policy = "scenario" ->
            IF 2 * first_alloc_size > 4096 THEN 2 * first_alloc_size ELSE 4096
      [] policy = "capped" ->
            IF 2 * first_alloc_size < 64 THEN 2 * first_alloc_size ELSE 64

\* Heap::new; the two buffers play no part in allocation
Heap_new(size) == [size |-> size]

SizePool_expand_prepend(pool, new_heap_size) ==
    LET heap == Heap_new(new_heap_size)
        allocator == Stack_new(heap)
    IN <<[heap |-> heap, allocator |-> allocator]>> \o pool

\* SizePool::expand
SizePool_expand(pool, new_heap_size) ==
    LET heap == Heap_new(new_heap_size)
        allocator == Stack_new(heap)
    IN Append(pool, [heap |-> heap, allocator |-> allocator])

\* the pool after allocator.alloc(size, alignment) has been called on every
\* entry from position `from` (1-based) to the newest
Probed(pool, from, size, alignment) ==
    [i \in 1..Len(pool) |->
        IF i >= from
        THEN [pool[i] EXCEPT !.allocator =
                  Stack_alloc(pool[i].allocator, size, alignment).self]
        ELSE pool[i]]

\* HeapArena::alloc_in_pool.  The loop enumerates the reversed pool, so
\* `index_in_pool` counts from the newest entry; `served` is the position
\* (0-based, in insertion order) of the entry whose allocator answered.
alloc_in_pool(pool, size, size_class, alignment, calc) ==
    LET n == Len(pool)
        fits == {e \in 0..(n - 1) :
                    Stack_alloc(pool[n - e].allocator, size, alignment).ok}
    IN
    IF fits # {}
    THEN LET index_in_pool == Min(fits)
             pos == n - index_in_pool
             r == Stack_alloc(pool[pos].allocator, size, alignment)
         IN [outcome |-> "ok",
             pool |-> Probed(pool, pos, size, alignment),
             allocation |->
                 [arena_key |-> [size_class |-> size_class,
                                 index_in_pool |-> index_in_pool],
                  range_in_heap |-> r.range],
             served |-> pos - 1]
    ELSE LET new_heap_size == ApplyPolicy(calc, size)
             probed == Probed(pool, 1, size, alignment)
         IN
         IF new_heap_size < size
         THEN [outcome |-> "panic_policy", pool |-> probed,
               allocation |-> NoAllocation, served |-> -1]
         ELSE LET grown == SizePool_expand(probed, new_heap_size)
                  r == Stack_alloc(grown[Len(grown)].allocator,
                                   size, alignment)
              IN IF ~r.ok
                 THEN [outcome |-> "panic_unwrap", pool |-> grown,
                       allocation |-> NoAllocation, served |-> -1]
                 ELSE [outcome |-> "ok",
                       pool |-> [grown EXCEPT ![Len(grown)].allocator = r.self],
                       allocation |->
                           [arena_key |-> [size_class |-> size_class,
                                           index_in_pool |-> Len(grown) - 1],
                            range_in_heap |-> r.range],
                       served |-> Len(grown) - 1]

\* HeapArena::alloc.  `&mut self.size_pools[index]` panics when index is
\* out of bounds; nothing in the crate pushes to size_pools.
HeapArena_alloc(tiny, pools, calc, size, alignment) ==
    LET size_class == classify_size(size) IN
    IF size_class < TinyClassLimit
    THEN LET r == alloc_in_pool(tiny, size, size_class, alignment, calc) IN
         [outcome |-> r.outcome, tiny_pool |-> r.pool, size_pools |-> pools,
          allocation |-> r.allocation, served |-> r.served]
    ELSE LET index == size_class - TinyClassLimit IN
         IF index >= Len(pools)
         THEN [outcome |-> "panic_index", tiny_pool |-> tiny,
               size_pools |-> pools, allocation |-> NoAllocation,
               served |-> -1]
         ELSE LET r == alloc_in_pool(pools[index + 1], size, size_class,
                                     alignment, calc)
              IN [outcome |-> r.outcome, tiny_pool |-> tiny,
                  size_pools |-> [pools EXCEPT ![index + 1] = r.pool],
                  allocation |-> r.allocation, served |-> r.served]

\* Index<ArenaKey> for HeapArena; ok = FALSE is the out-of-bounds panic
HeapArena_index(tiny, pools, key) ==
    IF key.size_class < TinyClassLimit
    THEN IF key.index_in_pool < Len(tiny)
         THEN [ok |-> TRUE, pair |-> tiny[key.index_in_pool + 1]]
         ELSE [ok |-> FALSE, pair |-> [heap |-> Heap_new(0),
                                       allocator |-> [pointer |-> 0]]]
    ELSE LET index == key.size_class - TinyClassLimit IN
         IF index < Len(pools) /\ key.index_in_pool < Len(pools[index + 1])
         THEN [ok |-> TRUE, pair |-> pools[index + 1][key.index_in_pool + 1]]
         ELSE [ok |-> FALSE, pair |-> [heap |-> Heap_new(0),
                                       allocator |-> [pointer |-> 0]]]

(***************************************************************************)
(* Spec: one HeapArena<Stack>                                              *)
(***************************************************************************)
ArenaSizes == {2, 3, 100, 4096, 5000}

ArenaAlignments == {1, 16}

StackIdle ==
    /\ heap_size = 1
    /\ stack = Stack_new([size |-> 1])
    /\ outstanding = <<>>
    /\ slast = [op |-> "new", size |-> 0, alignment |-> 1, ok |-> TRUE,
                before |-> 1, range |-> NoRange,
                most_recent |-> FALSE, immediate |-> FALSE,
                alloc_before |-> 1]
    /\ LogIdle

\* HeapArena::new
Init ==
    /\ tiny_pool = <<>>
    /\ size_pools = <<>>
    /\ calc_new_heap_size \in Policies
    /\ calls = 0
    /\ alast = [op |-> "new", size |-> 1, alignment |-> 1,
                outcome |-> "none", allocation |-> NoAllocation,
                served |-> -1, pre_tiny |-> <<>>, pre_pools |-> <<>>]
    /\ StackIdle
    /\ ClassIdle
    /\ HeapIdle

\* HeapArena::alloc(device, size, alignment) on the arena; a panic leaves
\* the arena as the call left it
ArenaAllocStep(size, alignment) ==
    LET r == HeapArena_alloc(tiny_pool, size_pools, calc_new_heap_size,
                             size, alignment)
    IN
    /\ calls < MaxCalls
    /\ tiny_pool' = r.tiny_pool
    /\ size_pools' = r.size_pools
    /\ alast' = [op |-> "alloc", size |-> size, alignment |-> alignment,
                 outcome |-> r.outcome, allocation |-> r.allocation,
                 served |-> r.served, pre_tiny |-> tiny_pool,
                 pre_pools |-> size_pools]
    /\ calls' = calls + 1
    /\ UNCHANGED <<calc_new_heap_size, stackVars, returned, misused,
                   classVars, heapVars>>

\* the caller calls HeapArena::alloc(device, size, alignment)
ArenaAllocCall ==
    \E size \in ArenaSizes, alignment \in ArenaAlignments :
        /\ ArenaAllocStep(size, alignment)
        /\ UNCHANGED allocations

Next == ArenaAllocCall

Spec == Init /\ [][Next]_vars

(***************************************************************************)
(* ArenaLogSpec: the caller keeps every Allocation the arena returns       *)
(***************************************************************************)
ArenaAllocLogged ==
    \E size \in ArenaSizes, alignment \in ArenaAlignments :
        LET r == HeapArena_alloc(tiny_pool, size_pools, calc_new_heap_size,
                                 size, alignment)
        IN
        /\ ArenaAllocStep(size, alignment)
        /\ allocations' = IF r.outcome = "ok"
                          THEN Append(allocations, r.allocation)
                          ELSE allocations

ArenaLogNext == ArenaAllocLogged

ArenaLogSpec == Init /\ [][ArenaLogNext]_vars

(***************************************************************************)
(* Arena claims                                                            *)
(***************************************************************************)
Panicked == alast.outcome \in {"panic_index", "panic_policy", "panic_unwrap"}

\* the pool of a size class; a class whose pool does not exist has no heaps
PoolOf(tiny, pools, size_class) ==
    IF size_class < TinyClassLimit THEN tiny
    ELSE IF size_class - TinyClassLimit < Len(pools)
         THEN pools[size_class - TinyClassLimit + 1]
         ELSE <<>>

LastClass == classify_size(alast.size)

PrePool == PoolOf(alast.pre_tiny, alast.pre_pools, LastClass)

PostPool == PoolOf(tiny_pool, size_pools, LastClass)

\* positions (1-based, insertion order) of the heaps of PrePool whose
\* allocator can satisfy the last request
Fitting ==
    {i \in 1..Len(PrePool) :
        Stack_alloc(PrePool[i].allocator, alast.size, alast.alignment).ok}

Max(S) == CHOOSE x \in S : \A y \in S : x >= y

PolicySize == ApplyPolicy(calc_new_heap_size, alast.size)

\* C1: an alloc of a size of class >= 12 under a policy that returns at
\* least the requested size does not panic: it returns an Allocation and
\* afterwards the pool at index class-12 exists in size_pools.
C1_LargeClassAllocExtendsPools ==
    (alast.op = "alloc" /\ LastClass >= TinyClassLimit
                        /\ PolicySize >= alast.size)
        => /\ alast.outcome = "ok"
           /\ Len(size_pools) > LastClass - TinyClassLimit

\* C2: the key of every returned Allocation resolves, by arena indexing, to
\* the pool entry that served the request: index_in_pool is that entry's
\* 0-based insertion position.
C2_KeyResolvesToServingHeap ==
    (alast.op = "alloc" /\ alast.outcome = "ok")
        => LET key == alast.allocation.arena_key
               r == HeapArena_index(tiny_pool, size_pools, key)
           IN /\ r.ok
              /\ key.index_in_pool = alast.served
              /\ r.pair = PostPool[alast.served + 1]

\* C8: when no heap of the request's pool can satisfy the request and the
\* policy result is >= size, alloc succeeds and appends exactly one entry,
\* of the policy's size, to that pool; when some heap can satisfy it, no
\* pool's length changes.
C8_GrowthAppendsExactlyOneHeap ==
    alast.op = "alloc"
        => IF Fitting # {}
           THEN /\ Len(tiny_pool) = Len(alast.pre_tiny)
                /\ Len(size_pools) = Len(alast.pre_pools)
                /\ \A i \in 1..Len(size_pools) :
                       Len(size_pools[i]) = Len(alast.pre_pools[i])
           ELSE PolicySize >= alast.size
                    => /\ alast.outcome = "ok"
                       /\ Len(PostPool) = Len(PrePool) + 1
                       /\ SubSeq(PostPool, 1, Len(PrePool)) = PrePool
                       /\ PostPool[Len(PostPool)].heap.size = PolicySize

\* C9: when growth is needed, a policy result smaller than the requested
\* size makes alloc panic with the pools and every pointer unchanged, and a
\* policy result equal to the requested size is accepted: alloc succeeds.
C9_PolicyResultChecked ==
    (alast.op = "alloc" /\ Fitting = {})
        => /\ PolicySize < alast.size
                => /\ Panicked
                   /\ tiny_pool = alast.pre_tiny
                   /\ size_pools = alast.pre_pools
           /\ PolicySize = alast.size => alast.outcome = "ok"

\* C10: when some heap of the request's pool can satisfy the request, the
\* newest such heap serves it: its pointer moves, every other entry is
\* unchanged, and the returned Allocation refers to that heap.
C10_NewestFittingHeapServes ==
    (alast.op = "alloc" /\ Fitting # {})
        => LET p == Max(Fitting)
               key == alast.allocation.arena_key
           IN /\ alast.outcome = "ok"
              /\ Len(PostPool) = Len(PrePool)
              /\ PostPool[p].allocator.pointer < PrePool[p].allocator.pointer
              /\ \A i \in 1..Len(PrePool) : i # p => PostPool[i] = PrePool[i]
              /\ key.index_in_pool = p - 1

\* C11: every heap stored in a pool belongs to the pool's size class: heaps
\* of the tiny pool have sizes 1..4095 and heaps of size_pools[i] have
\* floor(log2(size)) = i + 12 (sequences are 1-based: index i - 1).
C11_HeapsBelongToPoolClass ==
    /\ \A j \in 1..Len(tiny_pool) :
           /\ tiny_pool[j].heap.size >= 1
           /\ classify_size(tiny_pool[j].heap.size) < TinyClassLimit
    /\ \A i \in 1..Len(size_pools) : \A j \in 1..Len(size_pools[i]) :
           classify_size(size_pools[i][j].heap.size) = (i - 1) + TinyClassLimit

\* the keys a caller can hold
ArenaKeys ==
    [size_class : 0..(AddrBits - 1), index_in_pool : 0..MaxCalls]

\* C12: pools are append-only and keys are stable: in every step no pool
\* shrinks, every existing entry keeps its position and its heap, and every
\* key that resolved to a heap before the step resolves to the same heap
\* after it.
C12_PoolsAppendOnly ==
    [][/\ Len(tiny_pool') >= Len(tiny_pool)
       /\ \A j \in 1..Len(tiny_pool) : tiny_pool'[j].heap = tiny_pool[j].heap
       /\ Len(size_pools') >= Len(size_pools)
       /\ \A i \in 1..Len(size_pools) :
              /\ Len(size_pools'[i]) >= Len(size_pools[i])
              /\ \A j \in 1..Len(size_pools[i]) :
                     size_pools'[i][j].heap = size_pools[i][j].heap
       /\ \A key \in ArenaKeys :
              HeapArena_index(tiny_pool, size_pools, key).ok
                  => LET r == HeapArena_index(tiny_pool', size_pools', key) IN
                     /\ r.ok
                     /\ r.pair.heap
                            = HeapArena_index(tiny_pool, size_pools, key).pair.heap
      ]_vars

C12_Witness ==
    /\ alast.op = "alloc"
    /\ alast.outcome = "ok"
    /\ Len(alast.pre_tiny) >= 1
    /\ Len(tiny_pool) = Len(alast.pre_tiny) + 1
    /\ tiny_pool[Len(tiny_pool)].heap # tiny_pool[1].heap
    /\ HeapArena_index(tiny_pool, size_pools,
                       [size_class |-> 1, index_in_pool |-> 0]).pair.heap
           = alast.pre_tiny[1].heap

(***************************************************************************)
(* Stack invariants                                                        *)
(***************************************************************************)
Overlap(a, b) == a.start < b.end /\ b.start < a.end

PointerInHeap == stack.pointer >= 0 /\ stack.pointer <= heap_size

RangesInHeap ==
    /\ \A r \in returned : 0 <= r.start /\ r.start < r.end /\ r.end <= heap_size
    /\ \A i \in 1..Len(outstanding) :
           /\ 0 <= outstanding[i].start
           /\ outstanding[i].start < outstanding[i].end
           /\ outstanding[i].end <= heap_size

OutstandingDisjoint ==
    \A i, j \in 1..Len(outstanding) :
        i # j => ~Overlap(outstanding[i], outstanding[j])

\* C17 as stated: after any sequence of alloc calls and dealloc calls on
\* ranges previously returned by this allocator, the pointer is within
\* [0, heap.size], every returned range has 0 <= start < end <= heap.size
\* and no two outstanding ranges overlap.
C17_StackSafe_Original ==
    PointerInHeap /\ RangesInHeap /\ OutstandingDisjoint

\* C17 amended: the pointer and every returned range stay within the heap
\* after any such sequence, and no two outstanding ranges overlap as long as
\* every dealloc call so far was passed the range of an allocation that was
\* outstanding at the time of the call.
C17_StackSafe ==
    /\ PointerInHeap
    /\ RangesInHeap
    /\ ~misused => OutstandingDisjoint

C17_Witness ==
    /\ ~misused
    /\ Len(outstanding) >= 2
    /\ slast.op = "alloc"
    /\ slast.ok
    /\ \E r \in returned : LastIndexOf(outstanding, r) = 0

\* C18: alloc returns no result exactly when size > the current pointer,
\* never because of the alignment rounding, and a failed alloc leaves the
\* pointer unchanged.
C18_AllocFailsOnlyOnUnderflow ==
    slast.op = "alloc"
        => /\ ~slast.ok <=> slast.size > slast.before
           /\ ~slast.ok => stack.pointer = slast.before

C18_Witness ==
    /\ slast.op = "alloc"
    /\ ~slast.ok
    /\ slast.size > slast.before
    /\ slast.before > 0
    /\ stack.pointer = slast.before

(***************************************************************************)
(* ClassifySpec: classify_size applied to sizes around every power of two  *)
(***************************************************************************)
ClassifyInputs ==
    {x \in UNION {{2^n - 1, 2^n, 2^n + 1} : n \in 0..(AddrBits - 1)} :
        x >= 1 /\ x <= WordMax}

ClassifyInit ==
    /\ \E x \in ClassifyInputs :
           /\ csize = [size |-> x, class |-> classify_size(x)]
           /\ cprev = csize
    /\ heap_size = 1
    /\ stack = Stack_new([size |-> 1])
    /\ outstanding = <<>>
    /\ slast = [op |-> "new", size |-> 0, alignment |-> 1, ok |-> TRUE,
                before |-> 1, range |-> NoRange,
                most_recent |-> FALSE, immediate |-> FALSE,
                alloc_before |-> 1]
    /\ ArenaIdle
    /\ LogIdle
    /\ HeapIdle

\* a caller classifies another size; the previous call is kept for comparison
ClassifyCall ==
    /\ \E x \in ClassifyInputs :
           csize' = [size |-> x, class |-> classify_size(x)]
    /\ cprev' = csize
    /\ UNCHANGED <<stackVars, arenaVars, logVars, heapVars>>

ClassifyNext == ClassifyCall

ClassifySpec == ClassifyInit /\ [][ClassifyNext]_vars

FloorLog2(x) ==
    CHOOSE n \in 0..(AddrBits - 1) : 2^n <= x /\ x < 2^(n + 1)

\* C13: classify_size(x) = floor(log2(x)) for every nonzero word x; it is
\* monotonically non-decreasing, classify_size(2^n) = n, sizes 1..4095 give
\* classes 0..11 and 4096 gives class 12.
C13_ClassifyIsFloorLog2 ==
    /\ csize.class = FloorLog2(csize.size)
    /\ cprev.size <= csize.size => cprev.class <= csize.class
    /\ \A n \in 0..(AddrBits - 1) : csize.size = 2^n => csize.class = n
    /\ (csize.size >= 1 /\ csize.size <= 4095)
           => (csize.class >= 0 /\ csize.class <= 11)
    /\ csize.size = 4096 => csize.class = 12

C13_Witness ==
    /\ cprev.size = 4095
    /\ cprev.class = 11
    /\ csize.size = 4096
    /\ csize.class = 12

(***************************************************************************)
(* lib.rs: Heap.  The wgpu side is kept at its boundary: a buffer is a     *)
(* sequence of bytes, zero-filled at creation; a mapped range can be       *)
(* written only while the buffer is mapped; copy_buffer_to_buffer records  *)
(* a command; the recorded commands run, in order, once submitted, which   *)
(* wgpu accepts only when the staging buffer has been unmapped.  wgpu's    *)
(* offset and size alignment rules are not modelled.                       *)
(***************************************************************************)
Zeros(n) == [i \in 1..n |-> 0]

\* Heap::new: staging is created mapped, the device buffer is not
Heap_new_buffers(size) ==
    [staging |-> Zeros(size), gpu |-> Zeros(size), mapped |-> TRUE]

get_range_size_abs(range) ==
    IF range.end < range.start THEN range.start - range.end
    ELSE range.end - range.start

\* get_range_size: -1 is the panic "range is backwards"
get_range_size(range) == checked_sub(range.end, range.start)

\* bytes [offset, offset + size) of data replaced by bytes
Splice(data, offset, bytes) ==
    [i \in 1..Len(data) |->
        IF i > offset /\ i <= offset + Len(bytes) THEN bytes[i - offset]
        ELSE data[i]]

Heap_write_device(h, range, contents) ==
    IF \/ ~h.mapped
       \/ range.end <= range.start
       \/ range.end > Len(h.staging)
       \/ Len(contents) # range.end - range.start
    THEN [outcome |-> "panic", heap |-> h]
    ELSE [outcome |-> "ok",
          heap |-> [h EXCEPT !.gpu = Splice(h.gpu, range.start, contents)]]

\* Heap::write: slice(range).get_mapped_range_mut() panics when the buffer
\* is not mapped or the range is not inside it, copy_from_slice panics when
\* the lengths differ
Heap_write(h, range, contents) ==
    IF \/ ~h.mapped
       \/ range.end <= range.start
       \/ range.end > Len(h.staging)
       \/ Len(contents) # range.end - range.start
    THEN [outcome |-> "panic", heap |-> h]
    ELSE [outcome |-> "ok",
          heap |-> [h EXCEPT
                      !.staging = Splice(h.staging, range.start, contents)]]

Heap_flush_range_from_zero(enc, range) ==
    LET size == get_range_size(range) IN
    IF size = -1
    THEN [outcome |-> "panic_backwards", encoder |-> enc]
    ELSE [outcome |-> "ok",
          encoder |-> Append(enc, [src_offset |-> range.start,
                                   dst_offset |-> 0,
                                   size |-> size])]

\* Heap::flush_range: the arguments, get_range_size among them, are
\* evaluated before copy_buffer_to_buffer is called
Heap_flush_range(enc, range) ==
    LET size == get_range_size(range) IN
    IF size = -1
    THEN [outcome |-> "panic_backwards", encoder |-> enc]
    ELSE [outcome |-> "ok",
          encoder |-> Append(enc, [src_offset |-> range.start,
                                   dst_offset |-> range.start,
                                   size |-> size])]

\* Heap::flush
Heap_flush(enc, size) == Heap_flush_range(enc, [start |-> 0, end |-> size])

\* the device runs one recorded copy command
RunCopy(h, cmd) ==
    [h EXCEPT !.gpu = Splice(h.gpu, cmd.dst_offset,
                             SubSeq(h.staging, cmd.src_offset + 1,
                                    cmd.src_offset + cmd.size))]

(***************************************************************************)
(* HeapSpec: one Heap, its caller and the device                           *)
(***************************************************************************)
\* first byte of the contents a caller writes
Bytes == {1}

\* ranges a caller passes: inside the heap, or backwards
HeapRanges ==
    {r \in [start : 0..MaxHeapBytes, end : 0..MaxHeapBytes] : r.start # r.end}

\* contents a caller writes: b, b + 1, ... of any length up to the heap's
HeapContents ==
    {[i \in 1..n |-> b + i - 1] : b \in Bytes, n \in 1..MaxHeapBytes}

TheHeap == [staging |-> staging, gpu |-> gpu, mapped |-> mapped]

\* `expect` of an encoder entry: what the flushed range held when it was
\* flushed right after a write of that range, <<>> once a later write has
\* touched the range or when the flush did not follow such a write
Untag(enc) == [i \in 1..Len(enc) |-> enc[i].cmd]

Clobber(enc, range) ==
    [i \in 1..Len(enc) |->
        IF enc[i].range.start < range.end /\ range.start < enc[i].range.end
        THEN [enc[i] EXCEPT !.expect = <<>>]
        ELSE enc[i]]

HeapInit ==
    /\ LET h == Heap_new_buffers(MaxHeapBytes) IN
       /\ staging = h.staging
       /\ gpu = h.gpu
       /\ mapped = h.mapped
    /\ encoder = <<>>
    /\ hlast = NoHeapCall
    /\ heap_size = 1
    /\ stack = Stack_new([size |-> 1])
    /\ outstanding = <<>>
    /\ slast = [op |-> "new", size |-> 0, alignment |-> 1, ok |-> TRUE,
                before |-> 1, range |-> NoRange,
                most_recent |-> FALSE, immediate |-> FALSE,
                alloc_before |-> 1]
    /\ ArenaIdle
    /\ LogIdle
    /\ ClassIdle

HeapFrame == UNCHANGED <<stackVars, arenaVars, logVars, classVars>>

\* the caller calls Heap::write(range, contents)
HeapWriteCall ==
    /\ \E range \in HeapRanges, contents \in HeapContents :
        LET r == Heap_write(TheHeap, range, contents) IN
        /\ staging' = r.heap.staging
        /\ gpu' = r.heap.gpu
        /\ mapped' = r.heap.mapped
        /\ encoder' = IF r.outcome = "ok" THEN Clobber(encoder, range)
                      ELSE encoder
        /\ hlast' = [op |-> "write", range |-> range,
                     contents |-> IF r.outcome = "ok" THEN contents ELSE <<>>,
                     outcome |-> r.outcome]
    /\ HeapFrame

\* the caller calls Heap::flush_range(encoder, range)
HeapFlushRangeCall ==
    /\ Len(encoder) < MaxEncoder
    /\ \E range \in HeapRanges :
        LET r == Heap_flush_range(Untag(encoder), range)
            follows == /\ hlast.op = "write"
                       /\ hlast.outcome = "ok"
                       /\ hlast.range = range
        IN
        /\ encoder' = IF r.outcome = "ok"
                      THEN Append(encoder,
                                  [cmd |-> r.encoder[Len(r.encoder)],
                                   range |-> range,
                                   expect |-> IF follows THEN hlast.contents
                                              ELSE <<>>])
                      ELSE encoder
        /\ hlast' = [op |-> "flush_range", range |-> range,
                     contents |-> <<>>, outcome |-> r.outcome]
    /\ UNCHANGED <<staging, gpu, mapped>>
    /\ HeapFrame

\* the caller calls Heap::flush(encoder)
HeapFlushCall ==
    /\ Len(encoder) < MaxEncoder
    /\ LET r == Heap_flush(Untag(encoder), Len(staging))
           range == [start |-> 0, end |-> Len(staging)]
       IN
       /\ encoder' = Append(encoder, [cmd |-> r.encoder[Len(r.encoder)],
                                      range |-> range, expect |-> <<>>])
       /\ hlast' = [op |-> "flush", range |-> range, contents |-> <<>>,
                    outcome |-> r.outcome]
    /\ UNCHANGED <<staging, gpu, mapped>>
    /\ HeapFrame

\* the caller calls Heap::write_and_flush(encoder, range, contents); a panic
\* in write ends the call
HeapWriteAndFlushCall ==
    /\ Len(encoder) < MaxEncoder
    /\ \E range \in HeapRanges, contents \in HeapContents :
        LET w == Heap_write(TheHeap, range, contents)
            f == Heap_flush_range(Untag(encoder), range)
        IN
        /\ staging' = w.heap.staging
        /\ gpu' = w.heap.gpu
        /\ mapped' = w.heap.mapped
        /\ encoder' = IF w.outcome = "ok" /\ f.outcome = "ok"
                      THEN Append(Clobber(encoder, range),
                                  [cmd |-> f.encoder[Len(f.encoder)],
                                   range |-> range, expect |-> contents])
                      ELSE encoder
        /\ hlast' = [op |-> "write_and_flush", range |-> range,
                     contents |-> IF w.outcome = "ok" THEN contents
                                  ELSE <<>>,
                     outcome |-> IF w.outcome = "ok" THEN f.outcome
                                 ELSE w.outcome]
    /\ HeapFrame

\* the caller calls Heap::unmap()
HeapUnmapCall ==
    /\ mapped
    /\ mapped' = FALSE
    /\ hlast' = [op |-> "unmap", range |-> NoRange, contents |-> <<>>,
                 outcome |-> "ok"]
    /\ UNCHANGED <<staging, gpu, encoder>>
    /\ HeapFrame

\* the command stream has been submitted and the device runs its first copy
ExecuteCopy ==
    /\ ~mapped
    /\ encoder # <<>>
    /\ LET h == RunCopy(TheHeap, encoder[1].cmd) IN
       /\ gpu' = h.gpu
       /\ staging' = h.staging
    /\ encoder' = Tail(encoder)
    /\ hlast' = [op |-> "execute", range |-> encoder[1].range,
                 contents |-> encoder[1].expect, outcome |-> "ok"]
    /\ UNCHANGED mapped
    /\ HeapFrame

HeapNext ==
    \/ HeapWriteCall
    \/ HeapFlushRangeCall
    \/ HeapFlushCall
    \/ HeapWriteAndFlushCall
    \/ HeapUnmapCall
    \/ ExecuteCopy

HeapSpec == HeapInit /\ [][HeapNext]_vars

(***************************************************************************)
(* Heap claims                                                             *)
(***************************************************************************)
\* C14: every copy recorded by a flush has source offset = destination
\* offset = range.start and length = range.end - range.start, and once the
\* copy of a range that was written and then flushed has run, the device
\* buffer holds the written bytes at that range, as the staging buffer does.
C14_FlushedBytesReachDevice ==
    /\ \A i \in 1..Len(encoder) :
           /\ encoder[i].cmd.src_offset = encoder[i].range.start
           /\ encoder[i].cmd.dst_offset = encoder[i].range.start
           /\ encoder[i].cmd.size
                  = encoder[i].range.end - encoder[i].range.start
    /\ (hlast.op = "execute" /\ hlast.contents # <<>>)
           => /\ SubSeq(gpu, hlast.range.start + 1, hlast.range.end)
                     = hlast.contents
              /\ SubSeq(staging, hlast.range.start + 1, hlast.range.end)
                     = hlast.contents

C14_Witness ==
    /\ hlast.op = "execute"
    /\ hlast.contents # <<>>
    /\ hlast.range.start > 0
    /\ SubSeq(gpu, hlast.range.start + 1, hlast.range.end) = hlast.contents
    /\ gpu[1] = 0

\* C15: a write changes only the staging buffer (the device buffer and the
\* recorded commands are as before), and the device buffer changes only in a
\* step that runs a recorded copy.
C15_WriteTouchesOnlyStaging ==
    [][/\ hlast'.op = "write"
            => /\ gpu' = gpu
               /\ Untag(encoder') = Untag(encoder)
               /\ mapped' = mapped
       /\ gpu' # gpu => hlast'.op = "execute"
      ]_vars

C15_Witness ==
    /\ hlast.op = "write"
    /\ hlast.outcome = "ok"
    /\ staging # gpu
    /\ encoder # <<>>
    /\ SubSeq(staging, hlast.range.start + 1, hlast.range.end)
           = hlast.contents

\* C16: flush_range with a backwards range (end < start) fails with the
\* backwards-range error, records no copy and leaves staging and device
\* buffers unchanged.
C16_BackwardsFlushRejected ==
    [][(hlast'.op = "flush_range" /\ hlast'.range.end < hlast'.range.start)
            => /\ hlast'.outcome = "panic_backwards"
               /\ encoder' = encoder
               /\ staging' = staging
               /\ gpu' = gpu
      ]_vars

C16_Witness ==
    /\ hlast.op = "flush_range"
    /\ hlast.range.end < hlast.range.start
    /\ hlast.outcome = "panic_backwards"
    /\ staging # Zeros(Len(staging))

(***************************************************************************)
(* Arena frame                                                             *)
(***************************************************************************)
\* positions (1-based) of the tiny pool whose allocator pointer differs
\* from before the last call, an appended entry counting as changed
ChangedInTiny ==
    {i \in 1..Len(tiny_pool) :
        \/ i > Len(alast.pre_tiny)
        \/ tiny_pool[i].allocator # alast.pre_tiny[i].allocator}

ChangedInPools ==
    {p \in {q \in (1..Len(size_pools)) \X (1..MaxCalls) :
                q[2] <= Len(size_pools[q[1]])} :
        \/ p[1] > Len(alast.pre_pools)
        \/ p[2] > Len(alast.pre_pools[p[1]])
        \/ size_pools[p[1]][p[2]].allocator
               # alast.pre_pools[p[1]][p[2]].allocator}

\* C20: an alloc call that returns changes the pointer of exactly one
\* allocator, the one that served the request (possibly the newly appended
\* one); every other allocator, probed or in another pool, keeps its
\* pointer; a call that panics changes no pointer.
C20_OneAllocatorChanges ==
    alast.op = "alloc"
        => IF alast.outcome = "ok"
           THEN IF LastClass < TinyClassLimit
                THEN /\ ChangedInTiny = {alast.served + 1}
                     /\ ChangedInPools = {}
                ELSE /\ ChangedInTiny = {}
                     /\ ChangedInPools
                            = {<<LastClass - TinyClassLimit + 1,
                                 alast.served + 1>>}
           ELSE /\ ChangedInTiny = {}
                /\ ChangedInPools = {}

\* the newest heap could not fit the request and an older one served it
C20_Witness ==
    /\ alast.op = "alloc"
    /\ alast.outcome = "ok"
    /\ Len(alast.pre_tiny) >= 2
    /\ Len(tiny_pool) = Len(alast.pre_tiny)
    /\ alast.served + 1 < Len(tiny_pool)
    /\ ChangedInTiny = {alast.served + 1}

\* the pool entry a key resolves to by arena indexing: the pool (0 for the
\* tiny pool) and the position in it
Resolves(key) ==
    IF key.size_class < TinyClassLimit
    THEN <<0, key.index_in_pool>>
    ELSE <<key.size_class - TinyClassLimit + 1, key.index_in_pool>>

\* C19: among the Allocations one arena has returned (none deallocated),
\* any two whose keys resolve to the same heap have non-overlapping ranges,
\* and each range lies within the heap its key resolves to.
C19_AllocationsDisjointPerHeap ==
    /\ \A i, j \in 1..Len(allocations) :
           (i # j /\ Resolves(allocations[i].arena_key)
                        = Resolves(allocations[j].arena_key))
               => ~Overlap(allocations[i].range_in_heap,
                           allocations[j].range_in_heap)
    /\ \A i \in 1..Len(allocations) :
           LET r == HeapArena_index(tiny_pool, size_pools,
                                    allocations[i].arena_key)
           IN /\ r.ok
              /\ allocations[i].range_in_heap.start >= 0
              /\ allocations[i].range_in_heap.end <= r.pair.heap.size

====
